---------------------------- MODULE Spec2Model ----------------------------
(***************************************************************************)
(* Model of the USS Enterprise 3D viewer's real-time engine:               *)
(* graphics_utils.py (frame clock, orbital camera, animation engine,       *)
(* light) driven by the render() and handle_events() of the step 2 and     *)
(* step 6 viewers.                                                         *)
(*                                                                         *)
(* Numbers are fixed point, rounded toward zero where the source uses      *)
(* floats:                                                                 *)
(*   time                 1/60000 s   (so 1/60 s = 1000, 0.033 s = 1980)   *)
(*   speed multiplier     tenths      (1.0x = 10)                          *)
(*   total_animation_time 1/600000 s  (delta_time * multiplier)            *)
(*   angles               millidegrees                                     *)
(*   angular velocities   centidegrees per second                          *)
(*   lengths              1/1000 unit                                      *)
(*   zoom velocity        1/1000 unit per second                           *)
(*   smoothing factors    1/10000                                          *)
(*   bobbing speed        half cycles per second (2.0 = 4)                 *)
(***************************************************************************)
EXTENDS Integers, Sequences, FiniteSets, TLC

VARIABLES
    gu,        \* the module globals of graphics_utils.py
    app,       \* the viewer module's own globals (from graphics_utils import *)
    now,       \* the wall clock read by time.time()
    last_op,   \* the library calls the last step made, in order
    returned,  \* the value the last library call returned
    events,    \* number of input events handled so far
    ref        \* the state a run is compared with: the run without the bobbing
               \* and path toggles (SpecToggle), the state after the key hold
               \* (SpecCamera)

vars == <<gu, app, now, last_op, returned, events, ref>>

---------------------------------------------------------------------------
(* Bounds of the exploration *)

MaxFrames == 3
MaxEvents == 2

(* Units *)
Second == 60000
SmoothOne == 10000

---------------------------------------------------------------------------
(* Program constants, graphics_utils.py lines 17-222 *)

orbit_speed == 10000
pitch_limit == 89000
zoom_speed == 3500
pitch_speed == 7000
min_zoom_distance == 2000
max_zoom_distance == 50000
camera_speed == 70
forward_speed_multiplier == 13
strafe_speed_multiplier == 13
vertical_speed_multiplier == 16
turbo_multiplier == 3
fast_smoothing_threshold == 150
input_smoothing_factor == 1500
idle_smoothing_factor == 8800
fast_mode_smoothing == 800
initial_smoothing == 8200
input_window == 12000
transition_speed_input == 15
transition_speed_idle == 25

first_delta_time == 1000
max_raw_delta == 1980
min_raw_delta == 60
blend_old == 7
blend_new == 3

default_light_position == <<5000, 5000, 5000, 1000>>
light_move_speed == 1500
min_light_height == 100
light_floor == 500
light_rotation_speed == 60
legacy_orbit_radius == 6
legacy_light_height == 5000
rotation_speed_degrees_per_sec == 15

min_animation_speed == 1
max_animation_speed == 50
default_animation_speed == 10
default_model_rotation_speed == 30
default_light_orbit_speed == 45
default_light_bobbing_speed == 4
light_orbit_radius == 6
light_orbit_center == <<0, 3000, 0>>
light_bobbing_amplitude_x2 == 3
light_path_scale == 4
easing_factor_pct == 10
resume_speed_threshold == 0
default_preset == 1
default_shininess == 32
min_shininess == 1
max_shininess == 128

FullTurn == 360000

(* animation_presets: a key an entry omits is absent from the record *)
animation_presets ==
    (1 :> [name |-> "Showcase", model_speed |-> 20, model_paused |-> FALSE,
           light_orbit |-> TRUE, light_orbit_speed |-> 30,
           light_bobbing |-> FALSE, global_speed |-> 10])
 @@ (2 :> [name |-> "Dynamic", model_speed |-> 60, model_paused |-> FALSE,
           light_orbit |-> FALSE, light_bobbing |-> TRUE,
           light_bobbing_speed |-> 6, global_speed |-> 15])
 @@ (3 :> [name |-> "Cinematic", model_speed |-> 0, model_paused |-> TRUE,
           light_orbit |-> TRUE, light_orbit_speed |-> 20,
           light_bobbing |-> TRUE, light_bobbing_speed |-> 3,
           global_speed |-> 8])
 @@ (4 :> [name |-> "Hyperdrive", model_speed |-> 120, model_paused |-> FALSE,
           light_orbit |-> TRUE, light_orbit_speed |-> 90,
           light_path |-> TRUE, global_speed |-> 25])
 @@ (5 :> [name |-> "Zen", model_speed |-> 10, model_paused |-> FALSE,
           light_orbit |-> TRUE, light_orbit_speed |-> 15,
           light_bobbing |-> TRUE, light_bobbing_speed |-> 1,
           global_speed |-> 3])

---------------------------------------------------------------------------
(* Arithmetic helpers *)

\* float division of a by b > 0, rounded toward zero
TruncDiv(a, b) == IF a >= 0 THEN a \div b ELSE -((-a) \div b)

\* np.clip(x, lo, hi)
Clip(x, lo, hi) == IF x < lo THEN lo ELSE IF x > hi THEN hi ELSE x

Abs(x) == IF x >= 0 THEN x ELSE -x

Max(a, b) == IF a >= b THEN a ELSE b

Min(a, b) == IF a <= b THEN a ELSE b

\* sin of x degrees, 0 <= x <= 180, times 1000 (Bhaskara's rational form)
HalfWave(x) == (4000 * x * (180 - x)) \div (40500 - x * (180 - x))

\* np.sin of d whole degrees, times 1000
SinMilli(d) ==
    LET r == d % 360
    IN  IF r <= 180 THEN HalfWave(r) ELSE -HalfWave(r - 180)

\* np.cos of d whole degrees, times 1000
CosMilli(d) == SinMilli(d + 90)

\* dict.get(key, fallback) on a preset entry
Get(preset, key, fallback) ==
    IF key \in DOMAIN preset THEN preset[key] ELSE fallback

\* a status message: the format string and the values formatted into it
Msg(text, args) == [text |-> text, args |-> args]

---------------------------------------------------------------------------
(* FrameClock and OrbitalCamera: graphics_utils.py *)

\* variant of calculate_delta_time() without the lower clamp
calculate_delta_time_no_floor(g, t) ==
    LET raw_delta == t - g.last_frame_time
        dt == IF g.last_frame_time = 0 THEN first_delta_time
              ELSE IF raw_delta > max_raw_delta THEN max_raw_delta
              ELSE TruncDiv(g.delta_time * blend_old + raw_delta * blend_new,
                            blend_old + blend_new)
    IN  [g EXCEPT !.delta_time = dt,
                  !.last_frame_time = t,
                  !.frame_count = @ + 1,
                  !.delta_time_sum = @ + dt]

\* calculate_delta_time(), with t the value time.time() returns
calculate_delta_time(g, t) ==
    LET raw_delta == t - g.last_frame_time
        dt == IF g.last_frame_time = 0 THEN first_delta_time
              ELSE IF raw_delta > max_raw_delta THEN max_raw_delta
              ELSE IF raw_delta < min_raw_delta THEN min_raw_delta
              ELSE TruncDiv(g.delta_time * blend_old + raw_delta * blend_new,
                            blend_old + blend_new)
    IN  [g EXCEPT !.delta_time = dt,
                  !.last_frame_time = t,
                  !.frame_count = @ + 1,
                  !.delta_time_sum = @ + dt]

\* update_orbital_camera(): the eye position from yaw, pitch and distance
update_orbital_camera(g) ==
    LET yaw_deg == TruncDiv(g.camera_yaw, 1000)
        pitch_deg == TruncDiv(g.camera_pitch, 1000)
        flat == TruncDiv(g.camera_distance * CosMilli(pitch_deg), 1000)
    IN  [g EXCEPT !.eye = << TruncDiv(flat * SinMilli(yaw_deg), 1000),
                             TruncDiv(g.camera_distance * SinMilli(pitch_deg), 1000),
                             TruncDiv(flat * CosMilli(yaw_deg), 1000) >>]

\* the target of update_dynamic_smoothing's one-pole filter
target_smoothing(g, t) ==
    LET has_input == g.keys_pressed # {}
        current_speed == IF g.turbo_active THEN g.camera_speed * turbo_multiplier
                         ELSE g.camera_speed
        time_since_input == t - g.last_input_time
    IN  IF has_input
        THEN IF current_speed > fast_smoothing_threshold \/ g.turbo_active
             THEN fast_mode_smoothing
             ELSE input_smoothing_factor
        ELSE IF time_since_input < input_window
             THEN IF current_speed > fast_smoothing_threshold
                  THEN fast_mode_smoothing
                       + TruncDiv((input_smoothing_factor - fast_mode_smoothing)
                                  * time_since_input, input_window)
                  ELSE input_smoothing_factor
                       + TruncDiv((idle_smoothing_factor - input_smoothing_factor)
                                  * time_since_input, input_window)
             ELSE idle_smoothing_factor

\* update_dynamic_smoothing(), with t the value time.time() returns
update_dynamic_smoothing(g, t) ==
    IF ~g.smoothing_boost_on_input
    THEN [g EXCEPT !.current_smoothing = g.movement_smoothing]
    ELSE LET has_input == g.keys_pressed # {}
             transition_speed == IF has_input THEN transition_speed_input
                                 ELSE transition_speed_idle
         IN  [g EXCEPT !.last_input_time = IF has_input THEN t ELSE @,
                       !.current_smoothing =
                           TruncDiv(@ * (100 - transition_speed)
                                    + target_smoothing(g, t) * transition_speed, 100)]

\* variant of the velocity filter that coasts when the target is zero
smooth_velocity_coast(velocity, target, smoothing) ==
    IF target = 0 THEN velocity
    ELSE TruncDiv(velocity * smoothing + target * (SmoothOne - smoothing), SmoothOne)

\* velocity * current_smoothing + target * (1 - current_smoothing)
smooth_velocity(velocity, target, smoothing) ==
    TruncDiv(velocity * smoothing + target * (SmoothOne - smoothing), SmoothOne)

\* variant of clamp_pitch() that lets the pitch through
clamp_pitch_free(pitch) == pitch

\* the clamp of camera_pitch, graphics_utils.py line 440
clamp_pitch(pitch) == Clip(pitch, -pitch_limit, pitch_limit)

\* variant that leaves the yaw unwrapped
wrap_yaw_free(yaw) == yaw

\* the wrap of camera_yaw, graphics_utils.py line 441
wrap_yaw(yaw) == yaw % FullTurn

\* the clamp of camera_distance, graphics_utils.py line 455
clamp_distance(d) == Clip(d, min_zoom_distance, max_zoom_distance)

\* update_camera_position(), with t the value time.time() returns
update_camera_position(g0, t) ==
    LET g == update_dynamic_smoothing(g0, t)
        turbo == IF g.turbo_active THEN turbo_multiplier ELSE 1
        effective_orbit_speed == TruncDiv(g.orbit_speed * strafe_speed_multiplier, 10) * turbo
        effective_zoom_speed == TruncDiv(g.zoom_speed * g.forward_speed_multiplier, 10) * turbo
        effective_pitch_speed == TruncDiv(g.pitch_speed * vertical_speed_multiplier, 10) * turbo
        target_yaw == IF "K_d" \in g.keys_pressed THEN -effective_orbit_speed
                      ELSE IF "K_a" \in g.keys_pressed THEN effective_orbit_speed
                      ELSE 0
        target_pitch == IF "K_e" \in g.keys_pressed THEN -effective_pitch_speed
                        ELSE IF "K_q" \in g.keys_pressed THEN effective_pitch_speed
                        ELSE 0
        target_zoom == IF "K_s" \in g.keys_pressed THEN effective_zoom_speed
                       ELSE IF "K_w" \in g.keys_pressed THEN -effective_zoom_speed
                       ELSE 0
        yaw_rate == smooth_velocity(g.rotation_velocity[1], target_yaw, g.current_smoothing)
        pitch_rate == smooth_velocity(g.rotation_velocity[2], target_pitch, g.current_smoothing)
        zoom_rate == smooth_velocity(g.zoom_velocity, target_zoom, g.current_smoothing)
        moving == g.delta_time > 0
    IN  update_orbital_camera(
          [g EXCEPT !.rotation_velocity = <<yaw_rate, pitch_rate>>,
                    !.zoom_velocity = zoom_rate,
                    !.camera_yaw = IF moving
                                   THEN wrap_yaw(@ + TruncDiv(yaw_rate * g.delta_time, 6000))
                                   ELSE @,
                    !.camera_pitch = IF moving
                                     THEN clamp_pitch(@ + TruncDiv(pitch_rate * g.delta_time, 6000))
                                     ELSE @,
                    !.camera_distance = IF moving
                                        THEN clamp_distance(@ + TruncDiv(zoom_rate * g.delta_time, 60000))
                                        ELSE @])

---------------------------------------------------------------------------
(* Status line and light: graphics_utils.py *)

\* set_status_message(message), with t the time of the call
set_status_message(g, message, t) ==
    [g EXCEPT !.last_action_message = message, !.last_action_time = t]

\* the legacy light orbit of update_lighting_system(), lines 491-499
legacy_light_animation(g) ==
    IF g.animate_light /\ g.delta_time > 0
    THEN LET angle == (g.light_rotation_angle
                       + TruncDiv(light_rotation_speed * g.delta_time * 1000, Second))
                      % FullTurn
             deg == TruncDiv(angle, 1000)
         IN  [g EXCEPT !.light_rotation_angle = angle,
                       !.light_position = << legacy_orbit_radius * CosMilli(deg),
                                             legacy_light_height,
                                             legacy_orbit_radius * SinMilli(deg),
                                             @[4] >>]
    ELSE g

\* light_bobbing_amplitude * sin(2 pi * light_bobbing_speed * total_animation_time)
bobbing_offset_at(bobbing_speed, total_time) ==
    TruncDiv(light_bobbing_amplitude_x2
             * SinMilli(TruncDiv(bobbing_speed * total_time * 3, 10000)), 2)

\* path_time = total_animation_time * light_path_speed, in whole degrees
path_degrees(total_time) == TruncDiv(total_time, 10472)

\* the figure-eight offset <<path_x, path_z>>, lines 627-629
path_offset_at(total_time) ==
    << light_path_scale * SinMilli(path_degrees(total_time)),
       TruncDiv(light_path_scale * SinMilli(2 * path_degrees(total_time)), 2) >>

\* one frame's advance of an angle: speed * delta_time * animation_speed_multiplier
angle_step(speed, g) ==
    TruncDiv(speed * g.delta_time * g.animation_speed_multiplier, 600)

\* variant of update_light_animation() that puts an unanimated light back at
\* its base position
update_light_animation_rebase(g) ==
    IF g.animate_light \/ ~(g.delta_time > 0)
    THEN g
    ELSE IF ~g.light_orbit_enabled /\ ~g.light_bobbing_enabled /\ ~g.light_path_enabled
         THEN [g EXCEPT !.light_position = default_light_position]
         ELSE g

\* update_light_animation()
update_light_animation(g) ==
    IF g.animate_light \/ ~(g.delta_time > 0)
    THEN g
    ELSE LET orbit_angle == IF g.light_orbit_enabled
                            THEN (g.light_orbit_angle + angle_step(g.light_orbit_speed, g))
                                 % FullTurn
                            ELSE g.light_orbit_angle
             orbit_deg == TruncDiv(orbit_angle, 1000)
             orbit_pos == IF g.light_orbit_enabled
                          THEN << light_orbit_center[1] + light_orbit_radius * CosMilli(orbit_deg),
                                  light_orbit_center[2],
                                  light_orbit_center[3] + light_orbit_radius * SinMilli(orbit_deg) >>
                          ELSE << default_light_position[1], default_light_position[2],
                                  default_light_position[3] >>
             bobbing == IF g.light_bobbing_enabled
                        THEN bobbing_offset_at(g.light_bobbing_speed, g.total_animation_time)
                        ELSE g.light_bobbing_offset
             path == IF g.light_path_enabled
                     THEN path_offset_at(g.total_animation_time)
                     ELSE <<0, 0>>
             base_pos == << orbit_pos[1] + path[1],
                            orbit_pos[2] + (IF g.light_bobbing_enabled THEN bobbing ELSE 0),
                            orbit_pos[3] + path[2] >>
         IN  [g EXCEPT !.light_orbit_angle = orbit_angle,
                       !.light_bobbing_offset = bobbing,
                       !.light_position =
                           IF g.light_orbit_enabled \/ g.light_bobbing_enabled
                              \/ g.light_path_enabled
                           THEN << base_pos[1], Max(light_floor, base_pos[2]), base_pos[3], @[4] >>
                           ELSE @]

\* update_lighting_system(): the legacy orbit, then the animation channels
update_lighting_system(g) == update_light_animation(legacy_light_animation(g))

\* move_light(direction)
move_light(g, direction, t) ==
    LET p == g.light_position
        q == CASE direction = "forward" -> <<p[1], p[2], p[3] - light_move_speed, p[4]>>
               [] direction = "back"    -> <<p[1], p[2], p[3] + light_move_speed, p[4]>>
               [] direction = "left"    -> <<p[1] - light_move_speed, p[2], p[3], p[4]>>
               [] direction = "right"   -> <<p[1] + light_move_speed, p[2], p[3], p[4]>>
               [] direction = "up"      -> <<p[1], p[2] + light_move_speed, p[3], p[4]>>
               [] direction = "down"    -> <<p[1], Max(min_light_height, p[2] - light_move_speed),
                                             p[3], p[4]>>
               [] OTHER                 -> p
    IN  set_status_message([g EXCEPT !.light_position = q],
                           Msg("Light", <<q[1], q[2], q[3]>>), t)

---------------------------------------------------------------------------
(* AnimationEngine: graphics_utils.py *)

\* update_all_animations(): the legacy auto rotation
update_all_animations(g) ==
    IF ~g.animation_paused /\ g.delta_time > 0
    THEN [g EXCEPT !.current_auto_rotation =
                       (@ + TruncDiv(rotation_speed_degrees_per_sec * g.delta_time * 1000,
                                     Second)) % FullTurn]
    ELSE g

\* variant of update_model_animation() that lets the angle run on
update_model_animation_unwrapped(g) ==
    IF ~g.model_animation_paused /\ g.delta_time > 0
    THEN LET rotation_delta == angle_step(g.model_rotation_speed, g)
             easing_multiplier ==
                 1000 + TruncDiv(easing_factor_pct
                                 * SinMilli(TruncDiv(g.total_animation_time, 20944)), 100)
             eased == TruncDiv(rotation_delta * easing_multiplier, 1000)
         IN  [g EXCEPT !.model_rotation_angle = @ + eased]
    ELSE g

\* update_model_animation()
update_model_animation(g) ==
    IF ~g.model_animation_paused /\ g.delta_time > 0
    THEN LET rotation_delta == angle_step(g.model_rotation_speed, g)
             easing_multiplier ==
                 1000 + TruncDiv(easing_factor_pct
                                 * SinMilli(TruncDiv(g.total_animation_time, 20944)), 100)
             eased == TruncDiv(rotation_delta * easing_multiplier, 1000)
         IN  [g EXCEPT !.model_rotation_angle = (@ + eased) % FullTurn]
    ELSE g

\* variant of the advance of total_animation_time that stops while
\* animation_paused is set
advance_total_time_unless_paused(g) ==
    IF g.animation_paused THEN g
    ELSE [g EXCEPT !.total_animation_time = @ + g.delta_time * g.animation_speed_multiplier]

\* total_animation_time += delta_time * animation_speed_multiplier, line 581
advance_total_time(g) ==
    [g EXCEPT !.total_animation_time = @ + g.delta_time * g.animation_speed_multiplier]

\* update_all_animation_systems()
update_all_animation_systems(g) ==
    IF g.delta_time > 0
    THEN update_all_animations(update_model_animation(advance_total_time(g)))
    ELSE g

\* variant of toggle_model_animation() that keeps the speed it finds
toggle_model_animation_plain(g, t) ==
    LET paused == ~g.model_animation_paused
    IN  set_status_message(
            [g EXCEPT !.model_animation_paused = paused],
            Msg(IF paused THEN "Model Animation: PAUSED" ELSE "Model Animation: PLAYING",
                <<>>), t)

\* toggle_model_animation()
toggle_model_animation(g, t) ==
    LET paused == ~g.model_animation_paused
    IN  set_status_message(
            [g EXCEPT !.model_animation_paused = paused,
                      !.model_rotation_speed =
                          IF ~paused /\ @ <= resume_speed_threshold
                          THEN default_model_rotation_speed ELSE @],
            Msg(IF paused THEN "Model Animation: PAUSED" ELSE "Model Animation: PLAYING",
                <<>>), t)

\* variant of toggle_light_orbit() that also rewinds the orbit angle
toggle_light_orbit_rewind(g, t) ==
    set_status_message([g EXCEPT !.light_orbit_enabled = ~@, !.light_orbit_angle = 0],
        Msg(IF ~g.light_orbit_enabled THEN "Light Orbit: ON" ELSE "Light Orbit: OFF", <<>>), t)

\* toggle_light_orbit()
toggle_light_orbit(g, t) ==
    set_status_message([g EXCEPT !.light_orbit_enabled = ~@],
        Msg(IF ~g.light_orbit_enabled THEN "Light Orbit: ON" ELSE "Light Orbit: OFF", <<>>), t)

\* variant of toggle_light_bobbing() that restarts the bobbing phase
toggle_light_bobbing_restart(g, t) ==
    set_status_message([g EXCEPT !.light_bobbing_enabled = ~@, !.total_animation_time = 0],
        Msg(IF ~g.light_bobbing_enabled THEN "Light Bobbing: ON" ELSE "Light Bobbing: OFF",
            <<>>), t)

\* toggle_light_bobbing()
toggle_light_bobbing(g, t) ==
    set_status_message([g EXCEPT !.light_bobbing_enabled = ~@],
        Msg(IF ~g.light_bobbing_enabled THEN "Light Bobbing: ON" ELSE "Light Bobbing: OFF",
            <<>>), t)

\* toggle_light_path_animation()
toggle_light_path_animation(g, t) ==
    set_status_message([g EXCEPT !.light_path_enabled = ~@],
        Msg(IF ~g.light_path_enabled THEN "Light Path: ON" ELSE "Light Path: OFF", <<>>), t)

\* variant of adjust_animation_speed() without the clip
adjust_animation_speed_free(g, delta_speed, t) ==
    LET new_speed == g.animation_speed_multiplier + delta_speed
    IN  set_status_message([g EXCEPT !.animation_speed_multiplier = new_speed],
                           Msg("Speed", <<g.animation_speed_multiplier, new_speed>>), t)

\* adjust_animation_speed(delta_speed)
adjust_animation_speed(g, delta_speed, t) ==
    LET new_speed == Clip(g.animation_speed_multiplier + delta_speed,
                          min_animation_speed, max_animation_speed)
    IN  set_status_message([g EXCEPT !.animation_speed_multiplier = new_speed],
                           Msg("Speed", <<g.animation_speed_multiplier, new_speed>>), t)

\* variant of preset_fields() in which a key the entry omits keeps its value
preset_fields_merge(g, preset_number) ==
    LET preset == animation_presets[preset_number]
    IN  [g EXCEPT !.current_animation_preset = preset_number,
                  !.model_rotation_speed = Get(preset, "model_speed", @),
                  !.model_animation_paused = Get(preset, "model_paused", @),
                  !.light_orbit_enabled = Get(preset, "light_orbit", @),
                  !.light_orbit_speed = Get(preset, "light_orbit_speed", @),
                  !.light_bobbing_enabled = Get(preset, "light_bobbing", @),
                  !.light_bobbing_speed = Get(preset, "light_bobbing_speed", @),
                  !.light_path_enabled = Get(preset, "light_path", @),
                  !.animation_speed_multiplier = Get(preset, "global_speed", @)]

\* the fields apply_animation_preset() writes from the preset's entry, lines 718-729
preset_fields(g, preset_number) ==
    LET preset == animation_presets[preset_number]
    IN  [g EXCEPT !.current_animation_preset = preset_number,
                  !.model_rotation_speed = Get(preset, "model_speed", default_model_rotation_speed),
                  !.model_animation_paused = Get(preset, "model_paused", FALSE),
                  !.light_orbit_enabled = Get(preset, "light_orbit", FALSE),
                  !.light_orbit_speed = Get(preset, "light_orbit_speed", default_light_orbit_speed),
                  !.light_bobbing_enabled = Get(preset, "light_bobbing", FALSE),
                  !.light_bobbing_speed = Get(preset, "light_bobbing_speed",
                                              default_light_bobbing_speed),
                  !.light_path_enabled = Get(preset, "light_path", FALSE),
                  !.animation_speed_multiplier = Get(preset, "global_speed",
                                                     default_animation_speed)]

\* variant of apply_animation_preset() that restarts the animation clock
apply_animation_preset_restart(g, preset_number, t) ==
    IF preset_number \notin DOMAIN animation_presets
    THEN g
    ELSE set_status_message(
             [preset_fields(g, preset_number) EXCEPT !.total_animation_time = 0,
                                                     !.model_rotation_angle = 0],
             Msg(animation_presets[preset_number].name, <<preset_number>>), t)

\* variant of apply_animation_preset() that records the identifier before
\* looking it up
apply_animation_preset_unchecked(g, preset_number, t) ==
    IF preset_number \notin DOMAIN animation_presets
    THEN [g EXCEPT !.current_animation_preset = preset_number]
    ELSE set_status_message(preset_fields(g, preset_number),
                            Msg(animation_presets[preset_number].name, <<preset_number>>), t)

\* apply_animation_preset(preset_number): the state it leaves
apply_animation_preset(g, preset_number, t) ==
    IF preset_number \notin DOMAIN animation_presets
    THEN g
    ELSE set_status_message(preset_fields(g, preset_number),
                            Msg(animation_presets[preset_number].name, <<preset_number>>), t)

\* variant of apply_animation_preset() that returns whether it applied
apply_animation_preset_returns_flag(g, preset_number) ==
    IF preset_number \in DOMAIN animation_presets THEN "True" ELSE "False"

\* apply_animation_preset(preset_number): the value it returns (a bare return
\* at line 715, the end of the body after line 732)
apply_animation_preset_returns(g, preset_number) == "None"

\* variant of reset_all_animations() that leaves the light where it is
reset_all_animations_keep_light(g, t) ==
    set_status_message(
        [g EXCEPT !.model_animation_paused = FALSE,
                  !.model_rotation_angle = 0,
                  !.model_rotation_speed = default_model_rotation_speed,
                  !.light_orbit_enabled = FALSE,
                  !.light_orbit_angle = 0,
                  !.light_bobbing_enabled = FALSE,
                  !.light_bobbing_offset = 0,
                  !.light_path_enabled = FALSE,
                  !.animation_speed_multiplier = default_animation_speed,
                  !.total_animation_time = 0,
                  !.current_animation_preset = default_preset],
        Msg("All animations reset to defaults", <<>>), t)

\* reset_all_animations()
reset_all_animations(g, t) ==
    set_status_message(
        [g EXCEPT !.model_animation_paused = FALSE,
                  !.model_rotation_angle = 0,
                  !.model_rotation_speed = default_model_rotation_speed,
                  !.light_orbit_enabled = FALSE,
                  !.light_orbit_angle = 0,
                  !.light_bobbing_enabled = FALSE,
                  !.light_bobbing_offset = 0,
                  !.light_path_enabled = FALSE,
                  !.animation_speed_multiplier = default_animation_speed,
                  !.total_animation_time = 0,
                  !.current_animation_preset = default_preset,
                  !.light_position =
                      IF ~g.animate_light
                      THEN << default_light_position[1], default_light_position[2],
                              default_light_position[3], @[4] >>
                      ELSE @],
        Msg("All animations reset to defaults", <<>>), t)

---------------------------------------------------------------------------
(* Display switches and reset: graphics_utils.py *)

\* toggle_lighting()
toggle_lighting(g, t) ==
    set_status_message([g EXCEPT !.lighting_enabled = ~@],
        Msg(IF ~g.lighting_enabled THEN "Lighting: ON" ELSE "Lighting: OFF", <<>>), t)

\* toggle_wireframe()
toggle_wireframe(g, t) ==
    set_status_message([g EXCEPT !.wireframe_mode = ~@],
        Msg(IF ~g.wireframe_mode THEN "Wireframe: ON" ELSE "Solid: ON", <<>>), t)

\* toggle_shadows()
toggle_shadows(g, t) ==
    set_status_message([g EXCEPT !.shadows_enabled = ~@],
        Msg(IF ~g.shadows_enabled THEN "Shadows: ON" ELSE "Shadows: OFF", <<>>), t)

\* toggle_light_animation()
toggle_light_animation(g, t) ==
    set_status_message([g EXCEPT !.animate_light = ~@],
        Msg(IF ~g.animate_light THEN "Legacy Light Orbit: ON" ELSE "Legacy Light Orbit: OFF",
            <<>>), t)

\* toggle_ground_plane()
toggle_ground_plane(g, t) ==
    set_status_message([g EXCEPT !.ground_plane_visible = ~@],
        Msg(IF ~g.ground_plane_visible THEN "Ground: VISIBLE" ELSE "Ground: HIDDEN", <<>>), t)

\* adjust_material_shininess(change)
adjust_material_shininess(g, change, t) ==
    LET shininess == Clip(g.material_shininess + change, min_shininess, max_shininess)
    IN  set_status_message([g EXCEPT !.material_shininess = shininess],
                           Msg("Shininess", <<shininess>>), t)

\* reset_all_settings()
reset_all_settings(g, t) ==
    set_status_message(
        reset_all_animations(
            [g EXCEPT !.eye = <<0, 0, 8000>>,
                      !.rotation_velocity = <<0, 0>>,
                      !.camera_yaw = 0,
                      !.camera_pitch = 0,
                      !.camera_distance = 8000,
                      !.zoom_velocity = 0,
                      !.rotation_x = 0,
                      !.rotation_y = 0,
                      !.current_auto_rotation = 0,
                      !.light_position = default_light_position,
                      !.light_rotation_angle = 0,
                      !.animate_light = FALSE,
                      !.lighting_enabled = TRUE,
                      !.shadows_enabled = TRUE,
                      !.ground_plane_visible = TRUE,
                      !.animation_paused = FALSE,
                      !.material_shininess = default_shininess,
                      !.wireframe_mode = FALSE], t),
        Msg("All settings reset", <<>>), t)

---------------------------------------------------------------------------
(* The step 6 viewer: step6_animation.py *)

Directions == <<"forward", "back", "left", "right", "up", "down">>

PresetKeys == ("K_1" :> 1) @@ ("K_2" :> 2) @@ ("K_3" :> 3) @@ ("K_4" :> 4) @@ ("K_5" :> 5)

Call(name, arg) == [call |-> name, arg |-> arg]

\* the library call handle_events() makes for a KEYDOWN event, lines 310-383
command(ev) ==
    LET k == ev.key
    IN  CASE k = "K_p" -> IF ev.alt THEN Call("toggle_light_path_animation", 0)
                          ELSE Call("toggle_model_animation", 0)
          [] k = "K_l" -> IF ev.shift THEN Call("toggle_light_bobbing", 0)
                          ELSE Call("toggle_light_orbit", 0)
          [] k \in {"K_PLUS", "K_EQUALS"} ->
                 Call("adjust_animation_speed", IF ev.shift THEN 1 ELSE 5)
          [] k = "K_MINUS" ->
                 Call("adjust_animation_speed", IF ev.shift THEN -1 ELSE -5)
          [] k = "K_r" -> IF ev.alt THEN Call("reset_all_animations", 0)
                          ELSE Call("toggle_shadows", 0)
          [] k \in DOMAIN PresetKeys -> Call("apply_animation_preset", PresetKeys[k])
          [] k = "K_j" -> Call("move_light", 3)
          [] k = "K_SEMICOLON" -> Call("move_light", 4)
          [] k = "K_i" -> Call("move_light", 1)
          [] k = "K_k" -> Call("move_light", 2)
          [] k = "K_u" -> Call("move_light", 5)
          [] k = "K_o" -> Call("move_light", 6)
          [] k = "K_COMMA" -> Call("adjust_material_shininess", -8)
          [] k = "K_PERIOD" -> Call("adjust_material_shininess", 8)
          [] k = "K_f" -> Call("toggle_wireframe", 0)
          [] k = "K_t" -> Call("toggle_ground_plane", 0)
          [] k = "K_c" -> Call("reset_all_settings", 0)
          [] k = "K_TAB" -> Call("turbo_on", 0)
          [] OTHER -> Call("none", 0)

\* the effect of a library call on the globals of graphics_utils
run_call(g, c, t) ==
    CASE c.call = "toggle_light_path_animation" -> toggle_light_path_animation(g, t)
      [] c.call = "toggle_model_animation" -> toggle_model_animation(g, t)
      [] c.call = "toggle_light_bobbing" -> toggle_light_bobbing(g, t)
      [] c.call = "toggle_light_orbit" -> toggle_light_orbit(g, t)
      [] c.call = "adjust_animation_speed" -> adjust_animation_speed(g, c.arg, t)
      [] c.call = "reset_all_animations" -> reset_all_animations(g, t)
      [] c.call = "toggle_shadows" -> toggle_shadows(g, t)
      [] c.call = "apply_animation_preset" -> apply_animation_preset(g, c.arg, t)
      [] c.call = "move_light" -> move_light(g, Directions[c.arg], t)
      [] c.call = "adjust_material_shininess" -> adjust_material_shininess(g, c.arg, t)
      [] c.call = "toggle_wireframe" -> toggle_wireframe(g, t)
      [] c.call = "toggle_ground_plane" -> toggle_ground_plane(g, t)
      [] c.call = "reset_all_settings" -> reset_all_settings(g, t)
      [] c.call = "turbo_on" -> set_status_message(g, Msg("TURBO MODE: ON", <<turbo_multiplier>>), t)
      [] c.call = "turbo_off" -> set_status_message(g, Msg("TURBO MODE: OFF", <<>>), t)
      [] OTHER -> g

\* the viewer module's own names after a library call: `global turbo_active`
\* binds the viewer's copy, and reset_all_settings() rebinds graphics_utils'
\* light_position to a new list, leaving the viewer's name on the old one
run_call_app(a, g, c) ==
    CASE c.call = "turbo_on" -> [a EXCEPT !.turbo_active = TRUE]
      [] c.call = "turbo_off" -> [a EXCEPT !.turbo_active = FALSE]
      [] c.call = "reset_all_settings" /\ ~a.light_detached ->
             [a EXCEPT !.light_detached = TRUE, !.stale_light_position = g.light_position]
      [] OTHER -> a

\* handle_events(): one event of the queue, lines 302-392; st.c lists the
\* library calls made so far
handle_event(st, ev, t) ==
    LET g1 == [st.g EXCEPT !.keys_pressed = IF ev.type = "KEYDOWN" THEN @ \cup {ev.key}
                                            ELSE @ \ {ev.key}]
        c == IF ev.type = "KEYDOWN" THEN command(ev)
             ELSE IF ev.key = "K_TAB" THEN Call("turbo_off", 0)
             ELSE Call("none", 0)
    IN  [g |-> run_call(g1, c, t),
         a |-> run_call_app(st.a, g1, c),
         c |-> IF c.call = "none" THEN st.c ELSE Append(st.c, c)]

\* handle_events(): the events of the queue in order
RECURSIVE handle_events(_, _, _)
handle_events(st, batch, t) ==
    IF batch = <<>> THEN st
    ELSE handle_events(handle_event(st, Head(batch), t), Tail(batch), t)

\* the update phase of render(), lines 257-262
render(g, t) ==
    update_all_animation_systems(
        update_lighting_system(
            update_camera_position(calculate_delta_time(g, t), t)))

\* graphics_utils.model_rotation_axis, never reassigned
model_rotation_axis == << 0, 1, 0 >>

\* glRotatef(angle, x, y, z) as a record of the call
glRotatef(angle, axis) == [angle |-> angle, axis |-> axis]

\* apply_model_animation_transforms(): the glRotatef calls it makes
apply_model_animation_transforms(g) ==
    IF ~g.model_animation_paused
    THEN << glRotatef(g.model_rotation_angle, model_rotation_axis) >>
    ELSE << >>

\* variant of get_total_model_rotation() that ignores the pause
get_total_model_rotation_unpaused(g) == g.model_rotation_angle

\* get_total_model_rotation()
get_total_model_rotation(g) ==
    IF g.model_animation_paused THEN 0 ELSE g.model_rotation_angle

\* render(): the Y rotation handed to draw_model_shadow, lines 276-279, for
\* the mouse rotation rotation_y
total_rotation_y(g, rotation_y) == rotation_y + get_total_model_rotation(g)

\* draw_model_with_full_animation(): the rotations about the Y axis applied to
\* the model, lines 67-71
model_rotations(g, rotation_y) ==
    << glRotatef(rotation_y, << 0, 1, 0 >>) >> \o apply_model_animation_transforms(g)

\* mouse rotations about the Y axis, in millidegrees
MouseRotations == { 0, 30000, -90000 }

\* the light_pos argument of draw_model_shadow() in render(), lines 277-279:
\* the list the viewer's own name light_position is bound to
shadow_light_position(a, g) ==
    IF a.light_detached THEN a.stale_light_position ELSE g.light_position

---------------------------------------------------------------------------
(* State after construction *)

\* time.time() when the viewer starts
Epoch == 100 * Second

\* the wall-clock time between two frames at clock.tick(60), step6 line 538
FrameTime == 1000

\* the module globals as graphics_utils.py lines 17-222 set them
module_globals ==
    [ last_frame_time |-> 0, delta_time |-> 0, frame_count |-> 0, delta_time_sum |-> 0,
      eye |-> <<0, 0, 8000>>,
      camera_yaw |-> 0, camera_pitch |-> 0, camera_distance |-> 8000,
      rotation_velocity |-> <<0, 0>>, zoom_velocity |-> 0,
      turbo_active |-> FALSE, keys_pressed |-> {},
      camera_speed |-> camera_speed, forward_speed_multiplier |-> forward_speed_multiplier,
      orbit_speed |-> orbit_speed, zoom_speed |-> zoom_speed, pitch_speed |-> pitch_speed,
      max_distance_from_origin |-> 50,
      smoothing_boost_on_input |-> TRUE,
      movement_smoothing |-> initial_smoothing, current_smoothing |-> initial_smoothing,
      last_input_time |-> 0,
      rotation_x |-> 0, rotation_y |-> 0,
      wireframe_mode |-> FALSE, lighting_enabled |-> TRUE, shadows_enabled |-> TRUE,
      ground_plane_visible |-> TRUE, animation_paused |-> FALSE,
      current_auto_rotation |-> 0, material_shininess |-> default_shininess,
      light_position |-> default_light_position,
      animate_light |-> FALSE, light_rotation_angle |-> 0,
      last_action_message |-> Msg("", <<>>), last_action_time |-> 0,
      total_animation_time |-> 0, animation_speed_multiplier |-> default_animation_speed,
      model_animation_paused |-> FALSE, model_rotation_angle |-> 0,
      model_rotation_speed |-> default_model_rotation_speed,
      light_orbit_enabled |-> FALSE, light_orbit_angle |-> 0,
      light_orbit_speed |-> default_light_orbit_speed,
      light_bobbing_enabled |-> FALSE, light_bobbing_speed |-> default_light_bobbing_speed,
      light_bobbing_offset |-> 0,
      light_path_enabled |-> FALSE,
      current_animation_preset |-> default_preset ]

\* the viewer module's names bound by `from graphics_utils import *`
viewer_globals ==
    [ turbo_active |-> FALSE, light_detached |-> FALSE,
      stale_light_position |-> default_light_position ]

\* main() up to the main loop: apply_animation_preset(1), step6 line 516
Init ==
    /\ gu = apply_animation_preset(module_globals, 1, Epoch)
    /\ app = viewer_globals
    /\ now = Epoch
    /\ last_op = << Call("apply_animation_preset", 1) >>
    /\ returned = apply_animation_preset_returns(module_globals, 1)
    /\ events = 0
    /\ ref = apply_animation_preset(module_globals, 1, Epoch)

---------------------------------------------------------------------------
(* The step 2 viewer: step2_camera_controls.py, which reaches the globals as
   attributes of the module (gu.turbo_active, gu.orbit_speed, ...) *)

\* the KEYDOWN branch of handle_events(),
\* lines 188-255
step2_keydown(g, k) ==
    CASE k = "K_r" -> module_globals
      [] k = "K_c" -> [g EXCEPT !.eye = <<0, 0, 8000>>,
                                !.rotation_velocity = <<0, 0>>,
                                !.camera_yaw = 0,
                                !.camera_pitch = 0,
                                !.camera_distance = 8000,
                                !.zoom_velocity = 0]
      [] k = "K_t" -> [g EXCEPT !.turbo_active = TRUE]
      [] k = "K_LEFTBRACKET"  -> [g EXCEPT !.camera_speed = Max(5, @ - 50)]
      [] k = "K_RIGHTBRACKET" -> [g EXCEPT !.camera_speed = Min(1000, @ + 50)]
      [] k = "K_MINUS"  -> [g EXCEPT !.movement_smoothing = Max(0, @ - 500)]
      [] k = "K_EQUALS" -> [g EXCEPT !.movement_smoothing = Min(9900, @ + 500)]
      [] k = "K_1" -> [g EXCEPT !.forward_speed_multiplier = Max(1, @ - 5)]
      [] k = "K_2" -> [g EXCEPT !.forward_speed_multiplier = Min(100, @ + 5)]
      [] k = "K_3" -> [g EXCEPT !.orbit_speed = Max(1000, @ - 1000)]
      [] k = "K_4" -> [g EXCEPT !.orbit_speed = Min(36000, @ + 1000)]
      [] k = "K_5" -> [g EXCEPT !.zoom_speed = Max(100, @ - 200)]
      [] k = "K_6" -> [g EXCEPT !.zoom_speed = Min(10000, @ + 200)]
      [] k = "K_7" -> [g EXCEPT !.pitch_speed = Max(500, @ - 500)]
      [] k = "K_8" -> [g EXCEPT !.pitch_speed = Min(18000, @ + 500)]
      [] k = "K_9" -> [g EXCEPT !.smoothing_boost_on_input = ~@]
      [] k = "K_0" -> [g EXCEPT !.max_distance_from_origin =
                                    IF @ <= 20 THEN 50 ELSE IF @ <= 50 THEN 100 ELSE 20]
      [] OTHER -> g

\* handle_events(): one keyboard event, lines 183-263
step2_handle_event(g, ev) ==
    IF ev.type = "KEYDOWN"
    THEN step2_keydown([g EXCEPT !.keys_pressed = @ \cup {ev.key}], ev.key)
    ELSE [g EXCEPT !.keys_pressed = @ \ {ev.key},
                   !.turbo_active = IF ev.key = "K_t" THEN FALSE ELSE @]

\* handle_events(): the events of the queue in order
RECURSIVE step2_handle_events(_, _)
step2_handle_events(g, batch) ==
    IF batch = <<>> THEN g
    ELSE step2_handle_events(step2_handle_event(g, Head(batch)), Tail(batch))

\* the update phase of render(), lines 160-161
step2_render(g, t) == update_camera_position(calculate_delta_time(g, t), t)

---------------------------------------------------------------------------
(* Inputs *)

KeyDown(k, shift, alt) == [type |-> "KEYDOWN", key |-> k, shift |-> shift, alt |-> alt]
KeyUp(k) == [type |-> "KEYUP", key |-> k, shift |-> FALSE, alt |-> FALSE]

\* a key pressed and released between two frames
Tap(k, shift, alt) == << KeyDown(k, shift, alt), KeyUp(k) >>

\* two preset keys pressed one after the other between two frames
PresetPairs == { <<"K_4", "K_5">>, <<"K_2", "K_1">>, <<"K_3", "K_3">> }

\* the animation and light commands of the step 6 viewer
AnimationTaps ==
    { Tap(k, FALSE, FALSE) : k \in {"K_p", "K_l", "K_PLUS", "K_MINUS", "K_c",
                                    "K_1", "K_2", "K_3", "K_4", "K_5",
                                    "K_j", "K_SEMICOLON", "K_i", "K_k", "K_u", "K_o"} }
    \cup { Tap(k, TRUE, FALSE) : k \in {"K_l", "K_PLUS", "K_MINUS"} }
    \cup { Tap(k, FALSE, TRUE) : k \in {"K_p", "K_r"} }
    \cup { Tap(pair[1], FALSE, FALSE) \o Tap(pair[2], FALSE, FALSE) : pair \in PresetPairs }

\* identifiers apply_animation_preset() can be called with besides 1..5
OtherPresetIds == {0, 6}

---------------------------------------------------------------------------
(* Actions *)

\* the value the last of the calls returned
last_returned(g, calls) ==
    IF calls # <<>> /\ calls[Len(calls)].call = "apply_animation_preset"
    THEN apply_animation_preset_returns(g, calls[Len(calls)].arg)
    ELSE "None"

\* handle_events() on a queue of events
HandleEventsStep(batch, limit) ==
    /\ events < limit
    /\ LET st == handle_events([g |-> gu, a |-> app, c |-> <<>>], batch, now)
       IN  /\ gu' = st.g
           /\ app' = st.a
           /\ last_op' = st.c
           /\ returned' = last_returned(gu, st.c)
    /\ events' = events + 1
    /\ now' = now

\* a direct call of apply_animation_preset(n)
CallPresetStep(n) ==
    /\ events < MaxEvents
    /\ gu' = apply_animation_preset(gu, n, now)
    /\ returned' = apply_animation_preset_returns(gu, n)
    /\ last_op' = << Call("apply_animation_preset", n) >>
    /\ events' = events + 1
    /\ UNCHANGED <<app, now>>

\* one frame: render() after the wall clock advanced
RenderStep(advance) ==
    /\ gu.frame_count < MaxFrames
    /\ now' = now + advance
    /\ gu' = render(gu, now + advance)
    /\ last_op' = << Call("render", 0) >>
    /\ returned' = "None"
    /\ UNCHANGED <<app, events>>

HandleEvents ==
    \E batch \in AnimationTaps : HandleEventsStep(batch, MaxEvents) /\ UNCHANGED ref

CallPreset == \E n \in OtherPresetIds : CallPresetStep(n) /\ UNCHANGED ref

Render == RenderStep(FrameTime) /\ UNCHANGED ref

Next == HandleEvents \/ CallPreset \/ Render

Spec == Init /\ [][Next]_vars

---------------------------------------------------------------------------
(* The step 6 viewer next to a reference run: ref gets the same frames and
   the same events, except that the bobbing and path toggles are left out *)

\* more events are explored in the comparison
MaxToggleEvents == 3

\* Shift+L, Alt+P, L and the presets that have the light bobbing or on a path
ToggleTaps ==
    { Tap("K_l", TRUE, FALSE), Tap("K_p", FALSE, TRUE), Tap("K_l", FALSE, FALSE),
      Tap("K_2", FALSE, FALSE), Tap("K_4", FALSE, FALSE) }

\* the events of a queue without the KEYDOWN events that toggle bobbing or path
untoggled(batch) ==
    SelectSeq(batch, LAMBDA ev :
        ~(ev.type = "KEYDOWN"
          /\ command(ev).call \in {"toggle_light_bobbing", "toggle_light_path_animation"}))

ToggleEvents ==
    \E batch \in ToggleTaps :
        /\ HandleEventsStep(batch, MaxToggleEvents)
        /\ ref' = handle_events([g |-> ref, a |-> app, c |-> <<>>], untoggled(batch), now).g

ToggleFrame ==
    /\ RenderStep(FrameTime)
    /\ ref' = render(ref, now + FrameTime)

NextToggle == ToggleEvents \/ ToggleFrame

SpecToggle == Init /\ [][NextToggle]_vars

---------------------------------------------------------------------------
(* The frame clock under arbitrary wall-clock readings *)

\* differences between two successive readings of time.time(): the clock
\* stepped back, stood still, a frame at 60 Hz, the edges of the clamp, a stall
RawAdvances ==
    { -Second, -1, 0, min_raw_delta - 1, min_raw_delta, FrameTime,
      max_raw_delta, max_raw_delta + 1, 10 * Second }

ClockFrame == \E advance \in RawAdvances : RenderStep(advance) /\ UNCHANGED ref

NextClock == ClockFrame

SpecClock == Init /\ [][NextClock]_vars

---------------------------------------------------------------------------
(* The orbital camera in the step 2 viewer *)

\* frames of the longest key hold before the explored part of a run, in
\* units of which the holds are counted
HoldFrames == 40

\* more events and frames are explored after the hold
MaxCameraEvents == 2
MaxCameraFrames == 2

\* the keys held down before the explored part, and for how many frames
Holds ==
    { [keys |-> <<>>, frames |-> 0],
      [keys |-> <<"K_t", "K_q", "K_w", "K_a">>, frames |-> HoldFrames],
      [keys |-> <<"K_t", "K_e", "K_s", "K_d">>, frames |-> HoldFrames],
      [keys |-> <<"K_t", "K_e", "K_s", "K_d">>, frames |-> 5 * HoldFrames],
      [keys |-> <<"K_q", "K_a">>, frames |-> 5 * HoldFrames] }

\* n frames of the main loop at 60 Hz with no event, the first half of them
\* and then the rest
RECURSIVE step2_frames(_, _, _)
step2_frames(g, t, n) ==
    IF n = 0 THEN g
    ELSE IF n = 1 THEN step2_render(g, t + FrameTime)
    ELSE LET half == n \div 2
             mid == step2_frames(g, t, half)
         IN  IF mid.frame_count = g.frame_count + half
             THEN step2_frames(mid, t + half * FrameTime, n - half)
             ELSE mid

\* the keys of a hold pressed in order
presses(keys) == [i \in 1..Len(keys) |-> KeyDown(keys[i], FALSE, FALSE)]

\* the viewer starts, the keys of a hold go down and stay down for its frames
InitCamera ==
    \E hold \in Holds :
        /\ gu = step2_frames(step2_handle_events(module_globals, presses(hold.keys)),
                             Epoch, hold.frames)
        /\ app = viewer_globals
        /\ now = Epoch + hold.frames * FrameTime
        /\ last_op = IF hold.frames = 0 THEN <<>> ELSE << Call("render", 0) >>
        /\ returned = "None"
        /\ events = 0
        /\ ref = gu

\* the keyboard events explored after the hold
CameraKeys == {"K_a", "K_d", "K_q", "K_e", "K_w", "K_s", "K_t", "K_c", "K_8"}

\* handle_events() of the step 2 viewer on one event
CameraEventStep(ev) ==
    /\ events < MaxCameraEvents
    /\ (ev.type = "KEYDOWN") = (ev.key \notin gu.keys_pressed)
    /\ gu' = step2_handle_event(gu, ev)
    /\ last_op' = << Call(ev.type, 0) >>
    /\ returned' = "None"
    /\ events' = events + 1
    /\ UNCHANGED <<app, now, ref>>

CameraEvent ==
    \E k \in CameraKeys :
        \E ev \in {KeyDown(k, FALSE, FALSE), KeyUp(k)} : CameraEventStep(ev)

\* wall-clock time between two frames: a frame at 60 Hz, a stall, none
CameraAdvances == {FrameTime, 10 * Second, 0}

\* one frame of the step 2 viewer
CameraFrame ==
    \E advance \in CameraAdvances :
        /\ gu.frame_count < ref.frame_count + MaxCameraFrames
        /\ now' = now + advance
        /\ gu' = step2_render(gu, now + advance)
        /\ last_op' = << Call("render", 0) >>
        /\ returned' = "None"
        /\ UNCHANGED <<app, events, ref>>

NextCamera == CameraEvent \/ CameraFrame

SpecCamera == InitCamera /\ [][NextCamera]_vars

---------------------------------------------------------------------------
(* The speed keys of the step 6 viewer, pressed many times *)

\* events in a run of speed keys
MaxSpeedEvents == 7

\* + and - with and without Shift, the fastest and the slowest preset, Alt+R
SpeedTaps ==
    { Tap("K_PLUS", FALSE, FALSE), Tap("K_MINUS", FALSE, FALSE),
      Tap("K_EQUALS", TRUE, FALSE), Tap("K_MINUS", TRUE, FALSE),
      Tap("K_4", FALSE, FALSE), Tap("K_5", FALSE, FALSE), Tap("K_r", FALSE, TRUE) }

SpeedEvents ==
    \E batch \in SpeedTaps : HandleEventsStep(batch, MaxSpeedEvents) /\ UNCHANGED ref

NextSpeed == SpeedEvents

SpecSpeed == Init /\ [][NextSpeed]_vars

---------------------------------------------------------------------------
(* The step 6 viewer with a client that writes graphics_utils.animation_paused,
   the pause flag of the legacy animation (no viewer of the repository sets
   it; the viewers write other globals of the module in the same way) *)

\* the P key, the speed keys and the reset next to the pause flag
PauseTaps ==
    { Tap("K_p", FALSE, FALSE), Tap("K_PLUS", FALSE, FALSE), Tap("K_c", FALSE, FALSE) }

\* graphics_utils.animation_paused = paused
SetAnimationPaused ==
    \E paused \in BOOLEAN :
        /\ events < MaxEvents
        /\ gu' = [gu EXCEPT !.animation_paused = paused]
        /\ last_op' = << Call("set_animation_paused", IF paused THEN 1 ELSE 0) >>
        /\ returned' = "None"
        /\ events' = events + 1
        /\ UNCHANGED <<app, now, ref>>

PauseEvents ==
    \E batch \in PauseTaps : HandleEventsStep(batch, MaxEvents) /\ UNCHANGED ref

NextPause == SetAnimationPaused \/ PauseEvents \/ Render

SpecPause == Init /\ [][NextPause]_vars

---------------------------------------------------------------------------
(* The step 2 camera after the keys are let go *)

\* frames explored after the release
MaxIdleFrames == 120

\* frames after which the rates and the smoothing are taken to have settled
SettleFrames == 100

\* the keys held down before the release: none, turbo with positive rates,
\* negative rates, and 9 (dynamic smoothing switched off) with an orbit key
IdleHolds ==
    { [keys |-> <<>>, frames |-> 0],
      [keys |-> <<"K_t", "K_q", "K_w", "K_a">>, frames |-> HoldFrames],
      [keys |-> <<"K_d", "K_e", "K_s">>, frames |-> HoldFrames],
      [keys |-> <<"K_9", "K_a">>, frames |-> HoldFrames] }

\* the keys of a hold released in order
releases(keys) == [i \in 1..Len(keys) |-> KeyUp(keys[i])]

InitIdle ==
    \E hold \in IdleHolds :
        /\ gu = step2_frames(step2_handle_events(module_globals, presses(hold.keys)),
                             Epoch, hold.frames)
        /\ app = viewer_globals
        /\ now = Epoch + hold.frames * FrameTime
        /\ last_op = IF hold.frames = 0 THEN <<>> ELSE << Call("render", 0) >>
        /\ returned = "None"
        /\ events = 0
        /\ ref = gu

\* handle_events() of the step 2 viewer on the KEYUP events of all held keys;
\* ref keeps the state at the release
Release ==
    \E hold \in IdleHolds :
        /\ gu.keys_pressed # {}
        /\ gu.keys_pressed = { hold.keys[i] : i \in 1..Len(hold.keys) }
        /\ gu' = step2_handle_events(gu, releases(hold.keys))
        /\ ref' = gu'
        /\ last_op' = << Call("KEYUP", 0) >>
        /\ returned' = "None"
        /\ events' = events + 1
        /\ UNCHANGED <<app, now>>

\* one frame of the step 2 viewer with no key down
IdleFrame ==
    /\ gu.keys_pressed = {}
    /\ gu.frame_count < ref.frame_count + MaxIdleFrames
    /\ now' = now + FrameTime
    /\ gu' = step2_render(gu, now + FrameTime)
    /\ last_op' = << Call("render", 0) >>
    /\ returned' = "None"
    /\ UNCHANGED <<app, events, ref>>

NextIdle == Release \/ IdleFrame

SpecIdle == InitIdle /\ [][NextIdle]_vars

---------------------------------------------------------------------------
(* The shadow projection.  Coordinates are whole units; the unit normal, d,
   dot and the matrix entries are in 1/NormalScale. *)

\* largest coordinate of a projected point
MaxCoord == 2

NormalScale == 10

Dot3(u, v) == u[1] * v[1] + u[2] * v[2] + u[3] * v[3]

Dot4(u, v) == u[1] * v[1] + u[2] * v[2] + u[3] * v[3] + u[4] * v[4]

\* np.linalg.norm of a vector whose length is a whole number
norm(v) == CHOOSE n \in 0..(Abs(v[1]) + Abs(v[2]) + Abs(v[3])) : n * n = Dot3(v, v)

\* normal / np.linalg.norm(normal)
unit_normal(plane_normal) ==
    [i \in 1..3 |-> TruncDiv(plane_normal[i] * NormalScale, norm(plane_normal))]

\* the rows dot * I - light * (a, b, c, d)
shadow_rows(light_pos, plane, dot) ==
    [i \in 1..4 |-> [j \in 1..4 |->
        (IF i = j THEN dot ELSE 0) - plane[j] * light_pos[i]]]

\* variant with the sign of d flipped
create_shadow_matrix_flipped(light_pos, plane_point, plane_normal) ==
    LET normal == unit_normal(plane_normal)
        d      == Dot3(normal, plane_point)
        plane  == << normal[1], normal[2], normal[3], d >>
    IN  shadow_rows(light_pos, plane, Dot4(plane, light_pos))

create_shadow_matrix(light_pos, plane_point, plane_normal) ==
    LET normal == unit_normal(plane_normal)
        d      == -Dot3(normal, plane_point)
        plane  == << normal[1], normal[2], normal[3], d >>
        dot    == Dot4(plane, light_pos)
    IN  shadow_rows(light_pos, plane, dot)

\* matrix.T
transpose(matrix) == [i \in 1..4 |-> [j \in 1..4 |-> matrix[j][i]]]

\* the sixteen numbers of a numpy array in memory order (row after row)
flatten(matrix) == [k \in 1..16 |-> matrix[((k - 1) \div 4) + 1][((k - 1) % 4) + 1]]

\* glMultMatrixf reads its sixteen numbers column after column (the current
\* matrix is the identity here)
glMultMatrixf(m) == [i \in 1..4 |-> [j \in 1..4 |-> m[(j - 1) * 4 + i]]]

\* variant that hands the array to OpenGL without transposing it
apply_shadow_matrix_untransposed(light_pos, ground_y) ==
    glMultMatrixf(flatten(create_shadow_matrix(light_pos, << 0, ground_y, 0 >>, << 0, 1, 0 >>)))

apply_shadow_matrix(light_pos, ground_y) ==
    LET plane_point   == << 0, ground_y, 0 >>
        plane_normal  == << 0, 1, 0 >>
        shadow_matrix == create_shadow_matrix(light_pos, plane_point, plane_normal)
    IN  glMultMatrixf(flatten(transpose(shadow_matrix)))

\* graphics_utils.ground_plane_y, in 1/1000
ground_plane_y == -3000

\* variant of the arguments that passes a zero normal
create_shadow_matrix_arguments_flat(light_pos, ground_y) ==
    [light_pos |-> light_pos, plane_point |-> << 0, ground_y, 0 >>,
     plane_normal |-> << 0, 0, 0 >>]

\* apply_shadow_matrix(): the arguments of its create_shadow_matrix call,
\* lines 943-946
create_shadow_matrix_arguments(light_pos, ground_y) ==
    [light_pos |-> light_pos, plane_point |-> << 0, ground_y, 0 >>,
     plane_normal |-> << 0, 1, 0 >>]

\* draw_model_shadow(): the create_shadow_matrix calls it leads to
draw_model_shadow(light_pos, ground_y, enabled) ==
    IF ~enabled THEN << >>
    ELSE << create_shadow_matrix_arguments(light_pos, ground_y) >>

\* render() of the step 6 viewer: the create_shadow_matrix calls of a frame,
\* lines 276-279
render_shadow_calls(a, g) ==
    draw_model_shadow(shadow_light_position(a, g), ground_plane_y, g.shadows_enabled)

\* matrix times column vector
MatVec(matrix, p) == [i \in 1..4 |-> Dot4(matrix[i], p)]

\* lights: the default light, a light above the origin, a directional light
\* (w = 0), and a light at the origin
ShadowLights == { << 5, 5, 5, 1 >>, << 0, 3, 0, 1 >>, << 1, -2, 0, 0 >>, << 0, 0, 0, 1 >> }

PlanePoints == { << 0, 0, 0 >>, << 0, -2, 0 >>, << 1, 2, 0 >> }

PlaneNormals == { << 0, 1, 0 >>, << 0, 2, 0 >>, << 3, 0, 4 >>, << 0, 0, -1 >> }

HomogeneousPoints ==
    { << x, y, z, w >> : x \in -MaxCoord..MaxCoord, y \in -MaxCoord..MaxCoord,
                         z \in -MaxCoord..MaxCoord, w \in 0..1 }

no_matrix == << >>

InitShadow ==
    /\ gu \in [light_pos : ShadowLights, plane_point : PlanePoints,
               plane_normal : PlaneNormals, shadow_matrix : {no_matrix},
               current_matrix : {no_matrix}]
    /\ app = viewer_globals
    /\ now = Epoch
    /\ last_op = <<>>
    /\ returned = "None"
    /\ events = 0
    /\ ref = [by |-> "none", point |-> << 0, 0, 0, 0 >>, image |-> << 0, 0, 0, 0 >>]

\* a direct call of create_shadow_matrix
CreateShadowMatrix ==
    /\ gu.shadow_matrix = no_matrix
    /\ gu' = [gu EXCEPT !.shadow_matrix =
                  create_shadow_matrix(gu.light_pos, gu.plane_point, gu.plane_normal)]
    /\ last_op' = << Call("create_shadow_matrix", 0) >>
    /\ UNCHANGED <<app, now, returned, events, ref>>

\* apply_shadow_matrix with the ground at the height of the plane point
ApplyShadowMatrix ==
    /\ gu.current_matrix = no_matrix
    /\ gu' = [gu EXCEPT !.current_matrix =
                  apply_shadow_matrix(gu.light_pos, gu.plane_point[2])]
    /\ last_op' = << Call("apply_shadow_matrix", 0) >>
    /\ UNCHANGED <<app, now, returned, events, ref>>

\* the vertex of a run drawn through one of the two matrices
ProjectPoint ==
    \E p \in HomogeneousPoints, by \in {"shadow_matrix", "current_matrix"} :
        /\ ref.by = "none"
        /\ gu[by] # no_matrix
        /\ ref' = [by |-> by, point |-> p, image |-> MatVec(gu[by], p)]
        /\ last_op' = << Call("glVertex", 0) >>
        /\ UNCHANGED <<gu, app, now, returned, events>>

NextShadow == CreateShadowMatrix \/ ApplyShadowMatrix \/ ProjectPoint

SpecShadow == InitShadow /\ [][NextShadow]_vars

---------------------------------------------------------------------------
(* The step 2 camera from its starting state with one orbit key held *)

\* frames rendered with the key held
MaxOrbitFrames == 60

\* A orbits left, D orbits right
OrbitKeys == { "K_a", "K_d" }

InitOrbit ==
    /\ gu = module_globals
    /\ app = viewer_globals
    /\ now = Epoch
    /\ last_op = <<>>
    /\ returned = "None"
    /\ events = 0
    /\ ref = module_globals

\* the KEYDOWN of the orbit key, before the first frame
OrbitPress ==
    \E key \in OrbitKeys :
        /\ gu.keys_pressed = {}
        /\ gu.frame_count = 0
        /\ gu' = step2_handle_events(gu, presses(<< key >>))
        /\ last_op' = << Call("KEYDOWN", 0) >>
        /\ events' = events + 1
        /\ UNCHANGED <<app, now, returned, ref>>

\* one frame of 1/60 s with the key held
OrbitFrame ==
    /\ gu.keys_pressed # {}
    /\ gu.frame_count < MaxOrbitFrames
    /\ now' = now + FrameTime
    /\ gu' = step2_render(gu, now + FrameTime)
    /\ last_op' = << Call("render", 0) >>
    /\ UNCHANGED <<app, returned, events, ref>>

NextOrbit == OrbitPress \/ OrbitFrame

SpecOrbit == InitOrbit /\ [][NextOrbit]_vars

---------------------------------------------------------------------------
(* The step 6 viewer with the turbo key and camera keys held across frames *)

MaxTurboEvents == 3

\* TAB is the turbo key of the step 6 viewer; A orbits, W zooms
TurboKeys == { "K_TAB", "K_a", "K_w" }

\* handle_events() on one KEYDOWN of a key that is up or one KEYUP of a key
\* that is down
TurboEvent ==
    \E k \in TurboKeys :
        /\ HandleEventsStep(<< IF k \in gu.keys_pressed THEN KeyUp(k)
                               ELSE KeyDown(k, FALSE, FALSE) >>, MaxTurboEvents)
        /\ UNCHANGED ref

TurboFrame == RenderStep(FrameTime) /\ UNCHANGED ref

NextTurbo == TurboEvent \/ TurboFrame

SpecTurbo == Init /\ [][NextTurbo]_vars

---------------------------------------------------------------------------
(* The step 2 viewer with the camera speed raised and an orbit key tapped *)

MaxSmoothingEvents == 4
MaxSmoothingFrames == 3

\* ] raises camera_speed by 5, A orbits, T is the turbo key, H prints the help
SmoothingBatches ==
    { Tap("K_RIGHTBRACKET", FALSE, FALSE),
      << KeyDown("K_a", FALSE, FALSE) >>, << KeyUp("K_a") >>,
      << KeyDown("K_t", FALSE, FALSE) >>, << KeyUp("K_t") >>,
      << KeyDown("K_h", FALSE, FALSE) >>, << KeyUp("K_h") >> }

\* handle_events() on a queue that presses keys that are up and releases keys
\* that are down
SmoothingEvent ==
    \E batch \in SmoothingBatches :
        /\ events < MaxSmoothingEvents
        /\ (batch[1].type = "KEYDOWN") = (batch[1].key \notin gu.keys_pressed)
        /\ gu' = step2_handle_events(gu, batch)
        /\ last_op' = << Call(batch[1].type, 0) >>
        /\ events' = events + 1
        /\ UNCHANGED <<app, now, returned, ref>>

\* frames of 1/60 s, of 0.1 s (inside the 0.2 s window) and of 0.2 s
SmoothingAdvances == { FrameTime, input_window \div 2, input_window }

SmoothingFrame ==
    \E advance \in SmoothingAdvances :
        /\ gu.frame_count < MaxSmoothingFrames
        /\ now' = now + advance
        /\ gu' = step2_render(gu, now + advance)
        /\ last_op' = << Call("render", 0) >>
        /\ UNCHANGED <<app, returned, events, ref>>

NextSmoothing == SmoothingEvent \/ SmoothingFrame

SpecSmoothing == InitOrbit /\ [][NextSmoothing]_vars

---------------------------------------------------------------------------
(* The step 6 viewer after a long run of preset 4, where the angles wrap *)

\* frames of the run before the explored part, and frames explored after it
RunFrames == 66
MaxAngleFrames == 4

\* n frames of 1/60 s of the step 6 viewer, the first half and then the rest
RECURSIVE step6_frames(_, _, _)
step6_frames(g, t, n) ==
    IF n = 0 THEN g
    ELSE IF n = 1 THEN render(g, t + FrameTime)
    ELSE LET half == n \div 2
             mid == step6_frames(g, t, half)
         IN  IF mid.frame_count = g.frame_count + half
             THEN step6_frames(mid, t + half * FrameTime, n - half)
             ELSE mid

\* no run; preset 4 until the model is about to complete a turn; preset 4
\* until the light orbit is about to complete one
AngleRuns ==
    { [keys |-> << >>, frames |-> 0],
      [keys |-> << "K_4" >>, frames |-> RunFrames],
      [keys |-> << "K_4" >>, frames |-> RunFrames + 27] }

\* the keys of a run tapped in one queue
taps(keys) ==
    IF keys = << >> THEN << >> ELSE Tap(keys[1], FALSE, FALSE)

InitAngles ==
    \E run \in AngleRuns :
        LET st == handle_events([g |-> apply_animation_preset(module_globals, 1, Epoch),
                                 a |-> viewer_globals, c |-> << >>],
                                taps(run.keys), Epoch)
        IN  /\ gu = step6_frames(st.g, Epoch, run.frames)
            /\ app = st.a
            /\ now = Epoch + run.frames * FrameTime
            /\ last_op = IF run.frames = 0 THEN st.c ELSE << Call("render", 0) >>
            /\ returned = "None"
            /\ events = 0
            /\ ref = gu

\* P, L, faster, reset, presets 3 and 4
AngleTaps ==
    { Tap(k, FALSE, FALSE) : k \in {"K_p", "K_l", "K_PLUS", "K_c", "K_3", "K_4"} }

AngleEvents ==
    \E batch \in AngleTaps : HandleEventsStep(batch, MaxEvents) /\ UNCHANGED ref

\* a frame of 1/60 s or a frame after a stall
AngleFrame ==
    \E advance \in { FrameTime, 10 * Second } :
        /\ gu.frame_count < ref.frame_count + MaxAngleFrames
        /\ now' = now + advance
        /\ gu' = render(gu, now + advance)
        /\ last_op' = << Call("render", 0) >>
        /\ returned' = "None"
        /\ UNCHANGED <<app, events, ref>>

NextAngles == AngleEvents \/ AngleFrame

SpecAngles == InitAngles /\ [][NextAngles]_vars

---------------------------------------------------------------------------
(* The step 6 viewer with the light keys and a client that calls
   toggle_light_animation(), as the step 5 viewer does for its P key *)

\* orbit, bobbing and path toggles, a light move, preset 2 and the shadow
\* toggle
LightTaps ==
    { Tap("K_l", FALSE, FALSE), Tap("K_l", TRUE, FALSE), Tap("K_p", FALSE, TRUE),
      Tap("K_j", FALSE, FALSE), Tap("K_2", FALSE, FALSE), Tap("K_r", FALSE, FALSE) }

LightEvents ==
    \E batch \in LightTaps : HandleEventsStep(batch, MaxEvents) /\ UNCHANGED ref

\* a direct call of toggle_light_animation()
ToggleLegacy ==
    /\ events < MaxEvents
    /\ gu' = toggle_light_animation(gu, now)
    /\ last_op' = << Call("toggle_light_animation", 0) >>
    /\ returned' = "None"
    /\ events' = events + 1
    /\ UNCHANGED <<app, now, ref>>

NextLight == LightEvents \/ ToggleLegacy \/ Render

SpecLight == Init /\ [][NextLight]_vars

---------------------------------------------------------------------------
(* What ran last *)

\* the last step made exactly the one library call `name`
Did(name) == Len(last_op) = 1 /\ last_op[1].call = name

\* the last step made only calls of apply_animation_preset, and at least one
DidPresets ==
    /\ last_op # <<>>
    /\ \A i \in 1..Len(last_op) : last_op[i].call = "apply_animation_preset"

\* the identifier of the last apply_animation_preset call of the last step
LastPreset == last_op[Len(last_op)].arg

---------------------------------------------------------------------------
(* Claims about presets and reset *)

\* C3: apply_animation_preset, for any preset and from any state, leaves
\* model_rotation_angle, total_animation_time, light_orbit_angle and
\* light_bobbing_offset unchanged; preset 4 followed at once by preset 5 is
\* one step of the model (both keys in one event queue) and is covered.
C3_PresetKeepsAccumulators ==
    [][ (\A i \in 1..Len(last_op') : last_op'[i].call = "apply_animation_preset")
        /\ last_op' # <<>>
        => /\ gu'.model_rotation_angle = gu.model_rotation_angle
           /\ gu'.total_animation_time = gu.total_animation_time
           /\ gu'.light_orbit_angle = gu.light_orbit_angle
           /\ gu'.light_bobbing_offset = gu.light_bobbing_offset ]_vars

\* C3 witness: Hyperdrive then Zen were applied in one step while the
\* rotation angle, the orbit angle and the total time were running
C3_Witness ==
    /\ last_op = << Call("apply_animation_preset", 4), Call("apply_animation_preset", 5) >>
    /\ gu.model_rotation_angle > 0
    /\ gu.total_animation_time > 0
    /\ gu.light_orbit_angle > 0

\* the fields a preset decides
PresetState(g) ==
    << g.model_rotation_speed, g.model_animation_paused, g.light_orbit_enabled,
       g.light_bobbing_enabled, g.light_path_enabled, g.light_orbit_speed,
       g.light_bobbing_speed, g.animation_speed_multiplier, g.current_animation_preset >>

\* C4: after a valid preset P is applied, the rotation speed, the pause flag,
\* the orbit, bobbing and path flags, the orbit and bobbing speeds, the global
\* multiplier and the active preset are those P gives from the construction
\* state, whatever the state before; applying P again changes nothing.
C4_PresetReplacesState ==
    DidPresets /\ LastPreset \in DOMAIN animation_presets
    => /\ PresetState(gu) = PresetState(preset_fields(module_globals, LastPreset))
       /\ apply_animation_preset(gu, LastPreset, now) = gu

\* C4 witness: preset 1, which has no bobbing speed of its own, applied
\* right after preset 2 had set the bobbing speed, with frames run before
C4_Witness ==
    /\ last_op = << Call("apply_animation_preset", 2), Call("apply_animation_preset", 1) >>
    /\ gu.light_bobbing_speed = default_light_bobbing_speed
    /\ gu.total_animation_time > 0

\* C5: apply_animation_preset with an identifier that is not in the table
\* changes nothing: no animation field, not the active preset, not the
\* status message or its time.
C5_UnknownPresetNoChange ==
    [][ Len(last_op') = 1 /\ last_op'[1].call = "apply_animation_preset"
        /\ last_op'[1].arg \notin DOMAIN animation_presets
        => gu' = gu ]_vars

\* C5 witness: identifier 6 was passed while preset 3 was active and the
\* animation was running
C5_Witness ==
    /\ last_op = << Call("apply_animation_preset", 6) >>
    /\ gu.current_animation_preset = 3
    /\ gu.total_animation_time > 0

\* C6 (as the code has it): apply_animation_preset returns None for a known
\* and for an unknown identifier alike; after a known identifier the active
\* preset is that identifier and the status message names the preset.
C6_ReturnsNoneEitherWay ==
    DidPresets
    => /\ returned = "None"
       /\ LastPreset \in DOMAIN animation_presets
          => /\ gu.current_animation_preset = LastPreset
             /\ gu.last_action_message
                    = Msg(animation_presets[LastPreset].name, <<LastPreset>>)

\* C6 witness: identifier 0 was passed and None came back
C6_Witness ==
    /\ last_op = << Call("apply_animation_preset", 0) >>
    /\ returned = "None"

\* C6 as stated: the value returned is a boolean telling a preset that was
\* applied from an unknown identifier
C6_ReturnsBoolean ==
    DidPresets
    => returned = IF LastPreset \in DOMAIN animation_presets THEN "True" ELSE "False"

\* C7: after reset_all_animations the rotation angle, the orbit angle, the
\* bobbing offset and the total time are 0, the model animation is unpaused,
\* orbit, bobbing and path are disabled, the global multiplier is 1.0, the
\* active preset is 1 and the light is at the default light position.
C7_ResetState ==
    Did("reset_all_animations") \/ Did("reset_all_settings")
    => /\ gu.model_rotation_angle = 0
       /\ gu.light_orbit_angle = 0
       /\ gu.light_bobbing_offset = 0
       /\ gu.total_animation_time = 0
       /\ ~gu.model_animation_paused
       /\ ~gu.light_orbit_enabled /\ ~gu.light_bobbing_enabled /\ ~gu.light_path_enabled
       /\ gu.animation_speed_multiplier = default_animation_speed
       /\ gu.current_animation_preset = default_preset
       /\ gu.light_position = default_light_position

\* C7 witness: reset_all_animations ran after frames in which a preset other
\* than 1 had the light bobbing
C7_Witness ==
    /\ Did("reset_all_animations")
    /\ gu.frame_count >= 2
    /\ gu.light_bobbing_speed # default_light_bobbing_speed

\* C8 as stated: after reset_all_animations the speeds of the model rotation,
\* the light orbit and the light bobbing are the start-up defaults
C8_ResetRestoresSpeeds ==
    Did("reset_all_animations")
    => /\ gu.model_rotation_speed = default_model_rotation_speed
       /\ gu.light_orbit_speed = default_light_orbit_speed
       /\ gu.light_bobbing_speed = default_light_bobbing_speed

---------------------------------------------------------------------------
(* Claims about the channel toggles *)

\* the enable flags of the four channels
ChannelFlags(g) ==
    [model |-> ~g.model_animation_paused, orbit |-> g.light_orbit_enabled,
     bobbing |-> g.light_bobbing_enabled, path |-> g.light_path_enabled]

\* the phase accumulators
Accumulators(g) ==
    << g.model_rotation_angle, g.light_orbit_angle, g.total_animation_time >>

\* the channel each toggle call switches
ToggleChannel ==
    [toggle_model_animation |-> "model", toggle_light_orbit |-> "orbit",
     toggle_light_bobbing |-> "bobbing", toggle_light_path_animation |-> "path"]

\* C10: a channel toggle flips its own flag, changes the flag of no other
\* channel and changes no phase accumulator; a frame leaves the rotation angle
\* alone while the model animation is paused and the orbit angle alone while
\* the orbit is disabled.
C10_TogglesIndependent ==
    [][ /\ \A name \in DOMAIN ToggleChannel :
              Len(last_op') = 1 /\ last_op'[1].call = name
              => /\ ChannelFlags(gu') = [ChannelFlags(gu) EXCEPT ![ToggleChannel[name]] = ~@]
                 /\ Accumulators(gu') = Accumulators(gu)
        /\ last_op' = << Call("render", 0) >>
           => /\ gu.model_animation_paused
                 => gu'.model_rotation_angle = gu.model_rotation_angle
              /\ ~gu.light_orbit_enabled
                 => gu'.light_orbit_angle = gu.light_orbit_angle ]_vars

\* C10 witness: a frame ran with the orbit switched off by its toggle and the
\* model paused, after frames had moved both angles
C10_Witness ==
    /\ Did("render")
    /\ gu.last_action_message = Msg("Model Animation: PAUSED", <<>>)
    /\ ~gu.light_orbit_enabled /\ gu.current_animation_preset = 1
    /\ gu.light_orbit_angle > 0
    /\ gu.model_rotation_angle > 0

---------------------------------------------------------------------------
(* Claims about the frame clock and the camera *)

\* C1: after every update_camera_position, whatever keys are down, whether
\* turbo is on, whatever the frame clock measured and whether the camera was
\* reset, camera_pitch is in [-89, 89], camera_yaw in [0, 360) and
\* camera_distance in [2, 50].
C1_CameraInRange ==
    Did("render")
    => /\ -pitch_limit <= gu.camera_pitch /\ gu.camera_pitch <= pitch_limit
       /\ 0 <= gu.camera_yaw /\ gu.camera_yaw < FullTurn
       /\ min_zoom_distance <= gu.camera_distance
       /\ gu.camera_distance <= max_zoom_distance

\* C1 witness: a frame after the hold left the pitch at its upper limit and
\* the distance at its lower limit while both were still being pushed outward
C1_Witness ==
    /\ Did("render")
    /\ gu.frame_count > ref.frame_count
    /\ gu.camera_pitch = pitch_limit /\ gu.rotation_velocity[2] > 0
    /\ gu.camera_distance = min_zoom_distance /\ gu.zoom_velocity < 0
    /\ gu.turbo_active

\* C2: the first calculate_delta_time sets delta_time to exactly 1/60 s;
\* every later one leaves delta_time in [0.001 s, 0.033 s], whether the wall
\* clock stood still, stepped back or jumped ahead.
C2_DeltaTimeRange ==
    /\ gu.frame_count = 1 => gu.delta_time = first_delta_time
    /\ gu.frame_count > 1 => min_raw_delta <= gu.delta_time /\ gu.delta_time <= max_raw_delta

\* C2 witness: a later frame measured a wall clock that had stepped back to
\* before the start, and delta_time is the lower bound
C2_Witness ==
    /\ gu.frame_count > 1
    /\ now < Epoch
    /\ gu.last_frame_time = now
    /\ gu.delta_time = min_raw_delta

---------------------------------------------------------------------------
(* Claim about toggling against the reference run *)

\* C9: with the same frames, a run in which bobbing or path was toggled off
\* and on again shows, after every frame in which the channel is enabled, the
\* bobbing offset and the light position of the run in which it was never
\* toggled; toggling neither resets nor shifts total_animation_time.
C9_ToggleKeepsPhase ==
    /\ gu.total_animation_time = ref.total_animation_time
    /\ Did("render")
       => /\ gu.light_bobbing_enabled /\ ref.light_bobbing_enabled
             => gu.light_bobbing_offset = ref.light_bobbing_offset
          /\ ChannelFlags(gu) = ChannelFlags(ref)
             /\ (gu.light_bobbing_enabled \/ gu.light_path_enabled)
             => gu.light_position = ref.light_position

\* C9 witness: bobbing, on in the reference run since preset 2, was toggled
\* off and on again in the other run; a frame ran since and the light is off
\* its resting height
C9_Witness ==
    /\ Did("render")
    /\ gu.last_action_message = Msg("Light Bobbing: ON", <<>>)
    /\ gu.light_bobbing_enabled /\ ref.light_bobbing_enabled
    /\ ref.current_animation_preset = 2
    /\ gu.light_bobbing_offset # 0
    /\ gu.frame_count = MaxFrames

---------------------------------------------------------------------------
(* Claims about the speed multiplier, the animation clock and the light *)

\* C11: animation_speed_multiplier is in [0.1, 5.0] in every reachable state,
\* whatever coarse and fine adjustments, presets and resets came before.
C11_SpeedMultiplierRange ==
    /\ min_animation_speed <= gu.animation_speed_multiplier
    /\ gu.animation_speed_multiplier <= max_animation_speed

\* C11 witness: a coarse step up was asked for with the multiplier already at
\* 5.0, and it stayed there
C11_Witness ==
    /\ last_op = << Call("adjust_animation_speed", 5) >>
    /\ gu.last_action_message = Msg("Speed", <<max_animation_speed, max_animation_speed>>)
    /\ gu.animation_speed_multiplier = max_animation_speed


C13_LightAboveFloor == gu.light_position[2] >= light_floor


\* C14 as stated: in every rendered frame the light position passed to the
\* shadow projector is the light position of graphics_utils after that
\* frame's animation update
C14_ShadowLightFresh ==
    Did("render") => shadow_light_position(app, gu) = gu.light_position

---------------------------------------------------------------------------
(* Claims about the camera *)

\* all three rates are zero
RatesZero(g) == g.rotation_velocity = <<0, 0>> /\ g.zoom_velocity = 0

\* current_smoothing is within one rounding step of the filter from
\* idle_smoothing_factor
NearIdleSmoothing(g) ==
    Abs(idle_smoothing_factor - g.current_smoothing) * transition_speed_idle < 100

\* the frames since the keys were let go
IdleFrames(g) == g.frame_count - ref.frame_count

\* C15 (as the code has it): with no key down, every update_camera_position
\* leaves the magnitudes of the yaw, pitch and zoom rates no larger than
\* before, and after SettleFrames frames the rates are zero;
\* current_smoothing has then converged to idle_smoothing_factor while
\* smoothing_boost_on_input is on, and is movement_smoothing while it is off.
C15_IdleDecay ==
    [][ gu.keys_pressed = {} /\ last_op' = << Call("render", 0) >>
        => /\ Abs(gu'.rotation_velocity[1]) <= Abs(gu.rotation_velocity[1])
           /\ Abs(gu'.rotation_velocity[2]) <= Abs(gu.rotation_velocity[2])
           /\ Abs(gu'.zoom_velocity) <= Abs(gu.zoom_velocity)
           /\ IdleFrames(gu') >= SettleFrames
              => /\ RatesZero(gu')
                 /\ gu'.smoothing_boost_on_input => NearIdleSmoothing(gu')
                 /\ ~gu'.smoothing_boost_on_input
                    => gu'.current_smoothing = gu'.movement_smoothing ]_vars

\* C15 witness: the keys were let go at turbo speed with all three rates
\* non-zero, and SettleFrames frames later the rates are zero and
\* current_smoothing is at idle_smoothing_factor
C15_Witness ==
    /\ gu.keys_pressed = {} /\ Did("render")
    /\ ref.rotation_velocity[1] > 0 /\ ref.rotation_velocity[2] > 0 /\ ref.zoom_velocity < 0
    /\ IdleFrames(gu) >= SettleFrames
    /\ RatesZero(gu) /\ NearIdleSmoothing(gu)

\* C15 as stated: once no key has been down for SettleFrames frames the rates
\* are zero and current_smoothing has converged to idle_smoothing_factor
C15_IdleConverges ==
    gu.keys_pressed = {} /\ IdleFrames(gu) >= SettleFrames
    => RatesZero(gu) /\ NearIdleSmoothing(gu)
---------------------------------------------------------------------------
(* Claims about the shadow projection *)

\* the plane a matrix projects onto: the one handed to create_shadow_matrix,
\* or the horizontal ground plane of apply_shadow_matrix
PlanePointOf(by) ==
    IF by = "current_matrix" THEN << 0, gu.plane_point[2], 0 >> ELSE gu.plane_point

PlaneNormalOf(by) ==
    IF by = "current_matrix" THEN << 0, 1, 0 >> ELSE gu.plane_normal

\* the homogeneous point p lies on the plane through plane_point with the
\* given normal
OnPlane(p, plane_point, plane_normal) ==
    Dot3(plane_normal, p) - p[4] * Dot3(plane_normal, plane_point) = 0

\* a * lx + b * ly + c * lz + d * lw for the unit normal
LightDot ==
    LET n == unit_normal(gu.plane_normal)
    IN  Dot3(n, gu.light_pos) - gu.light_pos[4] * Dot3(n, gu.plane_point)

\* C16: a homogeneous point p on the plane is a fixed point of the matrix S
\* of create_shadow_matrix: S.p = dot * p, which is p itself after the
\* homogeneous divide when dot * w is not zero.
C16_PlanePointsFixed ==
    ref.by = "shadow_matrix" /\ OnPlane(ref.point, gu.plane_point, gu.plane_normal)
    => /\ ref.image = [i \in 1..4 |-> LightDot * ref.point[i]]
       /\ LightDot # 0 /\ ref.point[4] # 0
          => /\ ref.image[4] # 0
             /\ \A i \in 1..3 : ref.image[i] * ref.point[4] = ref.point[i] * ref.image[4]

\* C16 witness: with the light at (5, 5, 5, 1), plane point (0, 0, 0) and
\* normal (0, 1, 0) the plane point itself has been projected, and a point
\* of a plane that does not pass through the origin has been too
C16_Witness ==
    /\ ref.by = "shadow_matrix"
    /\ gu.light_pos = << 5, 5, 5, 1 >>
    /\ \/ /\ gu.plane_point = << 0, 0, 0 >> /\ gu.plane_normal = << 0, 1, 0 >>
          /\ ref.point = << 0, 0, 0, 1 >>
          /\ ref.image[4] # 0 /\ \A i \in 1..3 : ref.image[i] = 0
       \/ /\ gu.plane_point = << 0, -2, 0 >> /\ gu.plane_normal = << 0, 2, 0 >>
          /\ ref.point = << 2, -2, 1, 1 >>
          /\ ref.image[4] # 0

\* C16 as stated: for every light, a point p on the plane is mapped to a
\* non-zero multiple of itself, so that the homogeneous divide gives p back
C16_FixedForEveryLight ==
    ref.by = "shadow_matrix" /\ OnPlane(ref.point, gu.plane_point, gu.plane_normal)
                             /\ ref.point # << 0, 0, 0, 0 >>
    => \E k \in { LightDot } \ { 0 } : ref.image = [i \in 1..4 |-> k * ref.point[i]]

\* C17: the image S.p of any homogeneous point p satisfies the plane
\* equation, for the matrix create_shadow_matrix returns and for the one
\* apply_shadow_matrix hands to OpenGL.
C17_ImageOnPlane ==
    ref.by # "none" => OnPlane(ref.image, PlanePointOf(ref.by), PlaneNormalOf(ref.by))

\* C17 witness: a point off the ground plane at height -2 has gone through the
\* matrix of apply_shadow_matrix with the default light and has a finite
\* image
C17_Witness ==
    /\ ref.by = "current_matrix"
    /\ gu.light_pos = << 5, 5, 5, 1 >> /\ gu.plane_point[2] = -2
    /\ ~OnPlane(ref.point, PlanePointOf(ref.by), PlaneNormalOf(ref.by))
    /\ ref.point[4] = 1 /\ ref.image[4] # 0

---------------------------------------------------------------------------
(* Claims about the orbit keys and turbo *)

\* the frames of one second at 1/60 s per frame
OneSecondFrames == Second \div FrameTime

\* what orbit_speed * strafe_speed_multiplier sweeps in one second, in
\* millidegrees
OneSecondSweep == TruncDiv(module_globals.orbit_speed * strafe_speed_multiplier, 10) * 10

\* the key has been held from the starting state for one second of frames
HeldOneSecond(key) ==
    /\ gu.keys_pressed = { key }
    /\ gu.frame_count = OneSecondFrames
    /\ ~gu.turbo_active
    /\ ref.camera_yaw = 0 /\ ref.camera_pitch = 0 /\ ref.camera_distance = 8000

\* C18 (as the code has it): from yaw 0, pitch 0, distance 8 and zero rates,
\* 60 updates of 1/60 s with orbit speed 100 and turbo off turn the camera by
\* more than 0 and less than 130 degrees (orbit_speed times
\* strafe_speed_multiplier): orbit-left (A) ends with yaw in (0, 130),
\* orbit-right (D) turns the other way and ends with yaw in (230, 360).
C18_OrbitLag ==
    /\ HeldOneSecond("K_a")
       => 0 < gu.camera_yaw /\ gu.camera_yaw < OneSecondSweep
    /\ HeldOneSecond("K_d")
       => FullTurn - OneSecondSweep < gu.camera_yaw /\ gu.camera_yaw < FullTurn

\* C18 witness: orbit-right has been held for the 60 frames of 1/60 s at the
\* default orbit speed; the yaw rate is negative and the yaw has wrapped into
\* the upper half turn
C18_Witness ==
    /\ HeldOneSecond("K_d")
    /\ gu.orbit_speed = 10000
    /\ gu.delta_time = FrameTime
    /\ gu.rotation_velocity[1] < 0
    /\ gu.camera_yaw > FullTurn \div 2

\* C18 as stated: holding orbit-right for the 60 updates ends with yaw
\* strictly between 0 and 100 degrees
C18_YawBelowOrbitSpeed ==
    HeldOneSecond("K_d") => 0 < gu.camera_yaw /\ gu.camera_yaw < 100000


\* C19: after a frame rendered while the turbo key is held, the turbo flag
\* update_camera_position reads (graphics_utils.turbo_active) is set, so its
\* target rates carry turbo_multiplier.
C19_TurboReachesCamera ==
    Did("render") /\ "K_TAB" \in gu.keys_pressed => gu.turbo_active

---------------------------------------------------------------------------
(* Claims about the P key *)

\* C20: whenever toggle_model_animation leaves the model playing, under any
\* preset, model_rotation_speed is strictly positive, and a frame rendered
\* right after it with a positive delta_time moves model_rotation_angle.
C20_ResumeSpins ==
    [][ /\ last_op' = << Call("toggle_model_animation", 0) >>
           /\ ~gu'.model_animation_paused
           => gu'.model_rotation_speed > 0
        /\ Did("toggle_model_animation") /\ ~gu.model_animation_paused
           /\ last_op' = << Call("render", 0) >> /\ gu'.delta_time > 0
           => gu'.model_rotation_angle # gu.model_rotation_angle ]_vars

\* C20 witness: under preset 3 (speed 0, paused) P has brought the model into
\* the playing state at the default rotation speed
C20_Witness ==
    /\ Did("toggle_model_animation")
    /\ gu.current_animation_preset = 3
    /\ ~gu.model_animation_paused
    /\ gu.model_rotation_speed = default_model_rotation_speed

---------------------------------------------------------------------------
(* Claims about the pitch limit, the frame clock and the smoothing target *)

\* C21: when camera_pitch is at the limit (+89 or -89) the stored pitch rate
\* has no component pointing past the limit.
C21_NoRatePastLimit ==
    /\ gu.camera_pitch = pitch_limit => gu.rotation_velocity[2] <= 0
    /\ gu.camera_pitch = -pitch_limit => gu.rotation_velocity[2] >= 0

\* C22: on every call of calculate_delta_time after the first, the reported
\* delta is 0.7 times the previous reported delta plus 0.3 times the raw
\* difference clamped to [0.001, 0.033].
C22_BlendOfClampedRaw ==
    [][ gu.last_frame_time # 0 /\ last_op' = << Call("render", 0) >>
        => gu'.delta_time =
               TruncDiv(gu.delta_time * blend_old
                        + Clip(now' - gu.last_frame_time, min_raw_delta, max_raw_delta)
                          * blend_new,
                        blend_old + blend_new) ]_vars

\* the target that applies with input at the current speed
ActiveSmoothing(g) ==
    IF g.camera_speed > fast_smoothing_threshold THEN fast_mode_smoothing
    ELSE input_smoothing_factor

\* C23: on an update with no key down, t after the last input, the target of
\* current_smoothing is active + (idle_smoothing_factor - active) * t / 0.2
\* for t < 0.2 s and idle_smoothing_factor from 0.2 s on, in both speed
\* regimes.
C23_TargetBlendsToIdle ==
    [][ /\ gu.keys_pressed = {} /\ gu.smoothing_boost_on_input
        /\ last_op' = << Call("render", 0) >>
        => LET t == now' - gu.last_input_time
               target == IF t < input_window
                         THEN ActiveSmoothing(gu)
                              + TruncDiv((idle_smoothing_factor - ActiveSmoothing(gu)) * t,
                                         input_window)
                         ELSE idle_smoothing_factor
           IN  gu'.current_smoothing =
                   TruncDiv(gu.current_smoothing * (100 - transition_speed_idle)
                            + target * transition_speed_idle, 100) ]_vars

\* the keys update_camera_position looks for
camera_controls == { "K_a", "K_d", "K_q", "K_e", "K_w", "K_s" }

\* C24: a frame with only keys down that are not camera controls gives the
\* same smoothing factor, rates, yaw, pitch and distance as the same frame
\* with no key down.
C24_OtherKeysAreNoInput ==
    [][ /\ gu.keys_pressed # {} /\ gu.keys_pressed \cap camera_controls = {}
        /\ ~gu.turbo_active
        /\ last_op' = << Call("render", 0) >>
        => LET empty == step2_render([gu EXCEPT !.keys_pressed = {}], now')
           IN  /\ gu'.current_smoothing = empty.current_smoothing
               /\ gu'.rotation_velocity = empty.rotation_velocity
               /\ gu'.zoom_velocity = empty.zoom_velocity
               /\ gu'.camera_yaw = empty.camera_yaw
               /\ gu'.camera_pitch = empty.camera_pitch
               /\ gu'.camera_distance = empty.camera_distance ]_vars

---------------------------------------------------------------------------
(* Claims about the rotation handed to the renderer *)

\* the sum of the angles of a list of rotations
RECURSIVE SumAngles(_)
SumAngles(calls) ==
    IF calls = << >> THEN 0 ELSE Head(calls).angle + SumAngles(Tail(calls))

\* C25: in every frame, paused or not, the Y rotation handed to the shadow
\* (mouse rotation plus get_total_model_rotation) is the rotation the model
\* itself gets: all rotations of the model are about the Y axis and their
\* angles add up to it.
C25_ShadowRotatesWithModel ==
    \A rotation_y \in MouseRotations :
        /\ \A i \in 1..Len(model_rotations(gu, rotation_y)) :
               model_rotations(gu, rotation_y)[i].axis = << 0, 1, 0 >>
        /\ total_rotation_y(gu, rotation_y) = SumAngles(model_rotations(gu, rotation_y))

\* C25 witness: a frame has been rendered with the model playing at a
\* non-zero angle, or the model is paused at a non-zero angle
C25_Witness ==
    /\ gu.model_rotation_angle > 0
    /\ \/ Did("render") /\ ~gu.model_animation_paused
          /\ total_rotation_y(gu, 0) = gu.model_rotation_angle
       \/ Did("toggle_model_animation") /\ gu.model_animation_paused
          /\ total_rotation_y(gu, 0) = 0

\* C26: while the model channel is paused, the rotation handed to the
\* renderer is the model_rotation_angle held since the pause.
C26_PausedShowsHeldAngle ==
    gu.model_animation_paused
    => /\ get_total_model_rotation(gu) = gu.model_rotation_angle
       /\ SumAngles(apply_model_animation_transforms(gu)) = gu.model_rotation_angle

---------------------------------------------------------------------------
(* Claims about the light and the angles of the animation *)

\* C27: at the end of a frame the bobbing and path offsets in the light
\* position are those of the end-of-frame total_animation_time.
C27_LightAtEndOfFrameTime ==
    Did("render") /\ ~gu.animate_light /\ gu.delta_time > 0
    => /\ gu.light_bobbing_enabled
          => gu.light_bobbing_offset
                 = bobbing_offset_at(gu.light_bobbing_speed, gu.total_animation_time)
       /\ gu.light_path_enabled /\ ~gu.light_orbit_enabled
          => /\ gu.light_position[1]
                    = default_light_position[1] + path_offset_at(gu.total_animation_time)[1]
             /\ gu.light_position[3]
                    = default_light_position[3] + path_offset_at(gu.total_animation_time)[2]

\* C28: model_rotation_angle and light_orbit_angle are in [0, 360) in every
\* reachable state.
C28_AnglesWrapped ==
    /\ 0 <= gu.model_rotation_angle /\ gu.model_rotation_angle < FullTurn
    /\ 0 <= gu.light_orbit_angle /\ gu.light_orbit_angle < FullTurn

\* C28 witness: with no key pressed since the end of the run, a frame has
\* taken the model or the light orbit through a full turn, so that the angle
\* is smaller than it was at the end of the run
C28_Witness ==
    /\ Did("render") /\ events = 0
    /\ \/ /\ ~gu.model_animation_paused
          /\ gu.model_rotation_angle < ref.model_rotation_angle
       \/ /\ gu.light_orbit_enabled
          /\ gu.light_orbit_angle < ref.light_orbit_angle

\* the orbit, bobbing and path channels are all disabled
AllChannelsOff(g) ==
    ~g.light_orbit_enabled /\ ~g.light_bobbing_enabled /\ ~g.light_path_enabled

\* the light's animated state
LightState(g) == << g.light_position, g.light_orbit_angle, g.light_bobbing_offset >>

\* C29: in a frame where the orbit, bobbing and path channels are all
\* disabled, or the legacy light animation is on, update_light_animation
\* leaves light_position, light_orbit_angle and light_bobbing_offset as it
\* finds them; without the legacy animation the frame as a whole leaves them
\* unchanged.
C29_DisabledLightStays ==
    [][ last_op' = << Call("render", 0) >>
        => LET found == legacy_light_animation(
                            update_camera_position(calculate_delta_time(gu, now'), now'))
           IN  AllChannelsOff(found) \/ found.animate_light
               => /\ LightState(update_light_animation(found)) = LightState(found)
                  /\ ~found.animate_light => LightState(gu') = LightState(gu) ]_vars

\* C29 witness: the orbit has moved the light, the last channel has been
\* switched off, and a frame has been rendered after that with the light
\* still away from its base position
C29_Witness ==
    /\ Did("render") /\ gu.delta_time > 0
    /\ AllChannelsOff(gu) /\ ~gu.animate_light
    /\ gu.light_orbit_angle > 0
    /\ gu.light_position[1] # default_light_position[1]
    /\ gu.light_position[3] # default_light_position[3]

=============================================================================
